---- MODULE Spec2Model ----
(***************************************************************************)
(* Model of the Raspberry-Pi backend of the room automation project:       *)
(*   pi_backend/serial_manager.py  SerialManager (worker thread, PIDs)     *)
(*   pi_backend/app.py             Flask handlers /api/live, /api/settings *)
(*                                                                         *)
(* The worker thread, the settings handler and the live-data handler run   *)
(* concurrently on the attributes of one SerialManager object.  Each       *)
(* action below is one source line (or one group of lines that touches no  *)
(* attribute another thread reads or writes), so every interleaving of the *)
(* three threads at attribute granularity is a behaviour of the model.     *)
(*                                                                         *)
(* Numbers: temperatures and humidities are in tenths (25.0 -> 250), PID   *)
(* gains in hundredths (Kp = -10 -> -1000), elapsed times dt in whole      *)
(* seconds.  PID terms are kept in units of 1/Unit so that the arithmetic  *)
(* of simple_pid is exact in integers.                                     *)
(***************************************************************************)
EXTENDS Integers, Sequences, FiniteSets, TLC

(***************************************************************************)
(* Bounds of the model.                                                    *)
(***************************************************************************)
\* Inputs the model takes from outside: sensor lines, I/O and database
\* errors, elapsed logging intervals, re-plugged devices, HTTP requests
\* and the stop of the process.
MaxEvents == 3

(***************************************************************************)
(* JSON values as the code sees them: a number, a string, or None (a key   *)
(* that is absent: dict.get returns None).                                 *)
(***************************************************************************)
None   == [tag |-> "none", v |-> 0]
Str    == [tag |-> "str",  v |-> 0]
Num(x) == [tag |-> "num",  v |-> x]

IsNone(val) == val.tag = "none"
IsNum(val)  == val.tag = "num"

(***************************************************************************)
(* Lines the sensor link can deliver.  shape "object" is a line that       *)
(* starts with '{', ends with '}' and parses; "badjson" has the braces but *)
(* json.loads raises JSONDecodeError; "nobrace" fails the brace test       *)
(* (banner text, a partial frame, bytes dropped by errors='ignore').       *)
(***************************************************************************)
Obj(t, h) == [shape |-> "object", temp |-> t, hum |-> h, others |-> {}]

\* the same object with further keys, each a << key, value >> pair
WithKeys(obj, kvs) == [obj EXCEPT !.others = kvs]

\* "target_temp": 99.0, "fan_speed": 99
OtherKeys == { << "target_temp", 990 >>, << "fan_speed", 99 >> }

Lines ==
    { Obj(Num(250), Num(600)),      \* {"temp": 25.0, "hum": 60.0}
      Obj(Num(1000), Num(450)),     \* {"temp": 100.0, "hum": 45.0}
      Obj(Str, None),               \* {"temp": "warm"}
      Obj(Num(250), None),          \* {"temp": 25.0}
      Obj(None, Num(600)),          \* {"hum": 60.0}
      \* {"temp": 25.0, "hum": 60.0, "target_temp": 99.0, "fan_speed": 99}
      WithKeys(Obj(Num(250), Num(600)), OtherKeys),
      \* {"hum": 60.0, "target_temp": 99.0, "fan_speed": 99}
      WithKeys(Obj(None, Num(600)), OtherKeys),
      [shape |-> "badjson", temp |-> None, hum |-> None, others |-> {}],   \* {"temp": 25.
      [shape |-> "nobrace", temp |-> None, hum |-> None, others |-> {}] }  \* Ready

NoData == Obj(None, None)

(***************************************************************************)
(* Settings requests: the JSON body of POST /api/settings; an absent key   *)
(* is None.  control_mode is stored as given, whatever string it is.       *)
(***************************************************************************)
NoMode == "-"

Requests ==
    { [target_temp |-> Num(240), target_hum |-> None,     control_mode |-> NoMode],
      [target_temp |-> None,     target_hum |-> Num(550), control_mode |-> "HUM"],
      [target_temp |-> Num(240), target_hum |-> Num(550), control_mode |-> "AUTO"],
      [target_temp |-> None,     target_hum |-> None,     control_mode |-> "ECO"] }

NoRequest == [target_temp |-> None, target_hum |-> None, control_mode |-> NoMode]

(***************************************************************************)
(* Serial ports.  A port is a device path and what the device on it emits  *)
(* after it is opened.                                                     *)
(***************************************************************************)
NoPort == "None"

Port(d, k) == [device |-> d, kind |-> k]

PortConfigs ==
    { << Port("/dev/ttyACM0", "sensor"), Port("/dev/ttyACM1", "motor") >>,
      << Port("/dev/ttyACM0", "motor"),  Port("/dev/ttyACM1", "sensor") >>,
      << Port("/dev/ttyS0", "silent"),   Port("/dev/ttyACM1", "sensor") >>,
      << >> }

InitialPorts == << Port("/dev/ttyACM0", "sensor"), Port("/dev/ttyACM1", "motor") >>

\* "ACM" in p.device or "USB" in p.device or "COM" in p.device
NameMatches(device) == device \in {"/dev/ttyACM0", "/dev/ttyACM1", "/dev/ttyUSB0", "COM3"}

(***************************************************************************)
(* simple_pid.PID as SerialManager configures and calls it.                *)
(***************************************************************************)
OutLo == 0
OutHi == 255

DTs == {1, 2}       \* seconds from one sensor line to the next

\* the longest time between two calls of one controller
MaxElapsed == MaxEvents * 2

RECURSIVE Gcd(_, _)
Gcd(a, b) == IF b = 0 THEN a ELSE Gcd(b, a % b)

RECURSIVE LcmUpTo(_)
LcmUpTo(n) == IF n <= 1 THEN 1 ELSE (LcmUpTo(n - 1) * n) \div Gcd(LcmUpTo(n - 1), n)

\* derivative terms divide by dt: a common multiple of every dt
DtLcm == LcmUpTo(MaxElapsed)

\* one output unit, in the model's fixed-point representation
Unit == 1000 * DtLcm

TempGains == [p |-> -1000, i |-> -10, d |-> -5]     \* PID(-10, -0.1, -0.05)
HumGains  == [p |-> -500,  i |-> -5,  d |-> -1]     \* PID(-5, -0.05, -0.01)

DefaultTargetTemp == 220    \* 22.0
DefaultTargetHum  == 500    \* 50.0

ClampNoUpper(x, lo, hi) == IF x < lo THEN lo ELSE x

\* simple_pid _clamp(value, limits)
Clamp(x, lo, hi) == IF x > hi THEN hi ELSE IF x < lo THEN lo ELSE x

\* PID(Kp, Ki, Kd, setpoint=sp); elapsed is the time since _last_time
NewPid(sp) == [setpoint |-> sp, integral |-> 0, last_input |-> 0,
               has_last |-> FALSE, last_output |-> 0, elapsed |-> 0]

\* d seconds pass
Later(pid, d) == [pid EXCEPT !.elapsed = pid.elapsed + d]

PidCallErrorReversed(pid, K, input) ==
    LET dt       == pid.elapsed
        error    == input - pid.setpoint
        d_input  == IF pid.has_last THEN input - pid.last_input ELSE 0
        prop     == K.p * error * DtLcm
        integ    == Clamp(pid.integral + K.i * error * dt * DtLcm,
                          OutLo * Unit, OutHi * Unit)
        deriv    == (0 - K.d) * d_input * (DtLcm \div dt)
        output   == Clamp(prop + integ + deriv, OutLo * Unit, OutHi * Unit)
    IN  [pid EXCEPT !.integral = integ, !.last_input = input,
                    !.has_last = TRUE, !.last_output = output, !.elapsed = 0]

PidCallIntegralResets(pid, K, input) ==
    LET dt       == pid.elapsed
        error    == pid.setpoint - input
        d_input  == IF pid.has_last THEN input - pid.last_input ELSE 0
        prop     == K.p * error * DtLcm
        sum      == pid.integral + K.i * error * dt * DtLcm
        integ    == IF sum > OutHi * Unit \/ sum < OutLo * Unit THEN 0 ELSE sum
        deriv    == (0 - K.d) * d_input * (DtLcm \div dt)
        output   == Clamp(prop + integ + deriv, OutLo * Unit, OutHi * Unit)
    IN  [pid EXCEPT !.integral = integ, !.last_input = input,
                    !.has_last = TRUE, !.last_output = output, !.elapsed = 0]

\* PID.__call__(input_): the controller after the call; last_output is the
\* value returned.  dt = now - _last_time is at least one loop sleep, so
\* the sample_time test (dt < 0.01) never returns the previous output.
PidCall(pid, K, input) ==
    LET dt       == pid.elapsed
        error    == pid.setpoint - input
        d_input  == IF pid.has_last THEN input - pid.last_input ELSE 0
        prop     == K.p * error * DtLcm
        integ    == Clamp(pid.integral + K.i * error * dt * DtLcm,
                          OutLo * Unit, OutHi * Unit)
        deriv    == (0 - K.d) * d_input * (DtLcm \div dt)
        output   == Clamp(prop + integ + deriv, OutLo * Unit, OutHi * Unit)
    IN  [pid EXCEPT !.integral = integ, !.last_input = input,
                    !.has_last = TRUE, !.last_output = output, !.elapsed = 0]

\* int(x) of a float: truncation toward zero
IntOf(x) == IF x >= 0 THEN x \div Unit ELSE 0 - ((0 - x) \div Unit)

MaxAvg(a, b) == (a + b) \div 2

\* max(speed_temp, speed_hum)
Max(a, b) == IF a >= b THEN a ELSE b

VARIABLES
    \* SerialManager attributes
    running, sensor_port, motor_port,
    current_temp, current_hum, current_fan_speed,
    control_mode, target_temp, target_hum,
    pid_temp, pid_hum,
    \* locals of SerialManager._worker
    pc, sensor_ser, motor_ser, data, speed_temp, speed_hum, final_speed,
    \* the world outside the process
    ports,          \* the serial ports, in enumeration order
    fds,            \* device paths the process holds open
    motor_rx,       \* fan_speed of every command written to the motor link
    db_rows,        \* number of ClimateReading rows committed
    \* update_settings (one request thread)
    h_pc, h_req,
    \* get_live_data (one request thread)
    r_pc, snap,
    \* counters that bound the model
    nsamples, nfaults, nreplugs, nupdates, nreads,
    \* history: which sample (1, 2, ...) and which settings request a shared
    \* value comes from; 0 is the value set by __init__
    temp_id, hum_id, fan_id, tt_id, mode_id,
    arb_modes,      \* the control_mode values the arbitration of this sample read
    last_error,     \* what raised in the cycle that ended in the except block
    \* locals of SerialManager._find_ports
    p_ports,        \* ports: the enumeration the scan iterates over
    p_i,            \* position of the for loop in p_ports
    p_s,            \* s: device path of the handle the scan holds, if any
    p_out,          \* lines the probed device delivers within the window
    p_line,         \* position of the read loop in p_out
    is_sensor, is_motor, found_sensor, found_motor,
    p_class,        \* history: how the scan passed each port so far
    \* (Kp, Ki, Kd) of pid_temp
    tunings,
    \* server.py (the single-device server): module globals, the locals of
    \* serial_worker and its world
    serial_connection,  \* device path of the open connection, or None
    latest_data,        \* the keys temp, hum, pwm and connected of the dict
    stop_event,
    w_pc,               \* position of serial_worker
    rx,                 \* the line serial_worker has read
    usb,                \* devices that comports() lists, in order
    rows,               \* rows of the table data
    w_error,            \* history: what raised into the except block
    w_events            \* counter that bounds the model

shared  == << running, sensor_port, motor_port, current_temp, current_hum,
              current_fan_speed, control_mode, target_temp, target_hum,
              pid_temp, pid_hum >>
locals  == << pc, sensor_ser, motor_ser, data, speed_temp, speed_hum, final_speed >>
world   == << ports, fds, motor_rx, db_rows >>
handler == << h_pc, h_req >>
reader  == << r_pc, snap >>
counts  == << nsamples, nfaults, nreplugs, nupdates, nreads >>
history == << temp_id, hum_id, fan_id, tt_id, mode_id, arb_modes, last_error >>

prober  == << p_ports, p_i, p_s, p_out, p_line, is_sensor, is_motor,
              found_sensor, found_motor, p_class >>

server  == << serial_connection, latest_data, stop_event, w_pc, rx, usb, rows,
              w_error, w_events >>

vars == << shared, locals, world, handler, reader, counts, history, prober, tunings, server >>

\* the model takes one more input from outside
MoreEvents ==
    nsamples + nfaults + nreplugs + nupdates + nreads + db_rows
        + (IF running THEN 0 ELSE 1) < MaxEvents

(***************************************************************************)
(* SerialManager.__init__ and the start of the worker thread.              *)
(***************************************************************************)
NoSnap == [temperature |-> None, humidity |-> None, fan_speed |-> 0,
           target_temperature |-> 0, target_humidity |-> 0,
           control_mode |-> NoMode,
           active_sensor_port |-> NoPort, active_motor_port |-> NoPort,
           temp_id |-> 0, hum_id |-> 0, fan_id |-> 0, tt_id |-> 0, mode_id |-> 0]

\* no scan has run yet
ProberIdle ==
    /\ p_ports = << >> /\ p_i = 1 /\ p_s = NoPort /\ p_out = << >> /\ p_line = 1
    /\ is_sensor = FALSE /\ is_motor = FALSE
    /\ found_sensor = NoPort /\ found_motor = NoPort
    /\ p_class = << >>

\* server.py: a line as serial_worker receives it.  bytes: valid UTF-8 or
\* not; text: what the stripped text is ("empty", "nojson": no JSON text,
\* "number": JSON for a number, "object": JSON for an object); keys: the
\* << key, value >> pairs of an object
Rx(bytes, text, keys) == [bytes |-> bytes, text |-> text, keys |-> keys]

NoRx == Rx("utf8", "none", {})

\* serial_connection: None, or a serial.Serial on a path
Conn(path, open) == [path |-> path, is_open |-> open]

NoConn == Conn(NoPort, FALSE)

UsbInitial == << "/dev/cu.usbmodem1101" >>

\* server.py at import, before serial_worker starts: latest_data and
\* serial_connection as the module sets them; the table data is empty
ServerLoaded ==
    /\ serial_connection = NoConn
    /\ latest_data = [temp |-> 0, hum |-> 0, pwm |-> 0, connected |-> FALSE]
    /\ stop_event = FALSE
    /\ w_pc = "top" /\ rx = NoRx
    /\ usb = UsbInitial
    /\ rows = 0 /\ w_error = "none" /\ w_events = 0

\* SerialManager.__init__, and the locals of _worker before the loop
Constructed ==
    /\ running = TRUE
    /\ sensor_port = NoPort /\ motor_port = NoPort
    /\ current_temp = None /\ current_hum = None /\ current_fan_speed = 0
    /\ control_mode = "TEMP"
    /\ target_temp = DefaultTargetTemp /\ target_hum = DefaultTargetHum
    /\ pid_temp = NewPid(DefaultTargetTemp) /\ pid_hum = NewPid(DefaultTargetHum)
    /\ pc = "top" /\ sensor_ser = NoPort /\ motor_ser = NoPort
    /\ data = NoData /\ speed_temp = 0 /\ speed_hum = 0 /\ final_speed = 0
    /\ fds = {} /\ motor_rx = << >> /\ db_rows = 0
    /\ h_pc = "idle" /\ h_req = NoRequest
    /\ r_pc = "idle" /\ snap = NoSnap
    /\ nsamples = 0 /\ nfaults = 0 /\ nreplugs = 0 /\ nupdates = 0 /\ nreads = 0
    /\ temp_id = 0 /\ hum_id = 0 /\ fan_id = 0 /\ tt_id = 0 /\ mode_id = 0
    /\ arb_modes = {} /\ last_error = "none"
    /\ ProberIdle
    /\ tunings = TempGains
    /\ ServerLoaded

Init ==
    /\ Constructed
    /\ ports = InitialPorts

(***************************************************************************)
(* SerialManager._find_ports: one pass over the enumerated ports.  A port  *)
(* whose name matches is opened, sniffed and closed again; the device      *)
(* found for a role is the one of the last port classified for it.         *)
(***************************************************************************)
RECURSIVE ScanPorts(_, _, _, _)
ScanPorts(ps, i, fs, fm) ==
    IF i > Len(ps)
    THEN [sensor |-> fs, motor |-> fm]
    ELSE IF ~NameMatches(ps[i].device)
         THEN ScanPorts(ps, i + 1, fs, fm)
         ELSE IF ps[i].kind = "sensor"
              THEN ScanPorts(ps, i + 1, ps[i].device, fm)
              ELSE IF ps[i].kind = "motor"
                   THEN ScanPorts(ps, i + 1, fs, ps[i].device)
                   ELSE ScanPorts(ps, i + 1, fs, fm)

FindPorts == ScanPorts(ports, 1, NoPort, NoPort)

\* serial.Serial(path, ...) succeeds when a device is on the path
CanOpen(path) == \E i \in 1..Len(ports) : ports[i].device = path

Fd(path, role) == [path |-> path, role |-> role]

(***************************************************************************)
(* SerialManager._worker                                                   *)
(***************************************************************************)
\* while self.running: (the loop ends)
LoopExit ==
    /\ pc = "top" /\ ~running
    /\ pc' = "done"
    /\ UNCHANGED << server, prober, tunings, shared, sensor_ser, motor_ser, data, speed_temp, speed_hum,
                    final_speed, world, handler, reader, counts, history >>

\* 1. recovery: a link is missing, scan and open; without both links sleep
\* and start the next cycle
Discover ==
    /\ pc = "top" /\ running
    /\ sensor_ser = NoPort \/ motor_ser = NoPort
    /\ LET found == FindPorts
           sp == IF found.sensor # NoPort THEN found.sensor ELSE sensor_port
           mp == IF found.motor # NoPort THEN found.motor ELSE motor_port
           s  == IF sp # NoPort /\ sensor_ser = NoPort
                 THEN (IF CanOpen(sp) THEN sp ELSE NoPort)
                 ELSE sensor_ser
           m  == IF mp # NoPort /\ motor_ser = NoPort
                 THEN (IF CanOpen(mp) THEN mp ELSE NoPort)
                 ELSE motor_ser
       IN  /\ sensor_port' = sp
           /\ motor_port' = mp
           /\ sensor_ser' = s
           /\ motor_ser' = m
           /\ fds' = fds \cup (IF s # NoPort THEN {Fd(s, "sensor")} ELSE {})
                         \cup (IF m # NoPort THEN {Fd(m, "motor")} ELSE {})
           /\ pc' = IF s = NoPort \/ m = NoPort THEN "top" ELSE "read"
    /\ last_error' = "none"
    /\ UNCHANGED << server, prober, tunings, running, current_temp, current_hum, current_fan_speed,
                    control_mode, target_temp, target_hum, pid_temp, pid_hum,
                    data, speed_temp, speed_hum, final_speed,
                    ports, motor_rx, db_rows, handler, reader, counts,
                    temp_id, hum_id, fan_id, tt_id, mode_id, arb_modes >>

\* both links are open: the cycle goes straight to the main part
CycleStart ==
    /\ pc = "top" /\ running
    /\ sensor_ser # NoPort /\ motor_ser # NoPort
    /\ pc' = "read"
    /\ UNCHANGED << server, prober, tunings, shared, sensor_ser, motor_ser, data, speed_temp, speed_hum,
                    final_speed, world, handler, reader, counts, history >>

\* sensor_ser.in_waiting or sensor_ser.readline() raises
SensorReadFails ==
    /\ pc = "read" /\ MoreEvents
    /\ nfaults' = nfaults + 1
    /\ pc' = "except"
    /\ last_error' = "sensor_io"
    /\ UNCHANGED << server, prober, tunings, shared, sensor_ser, motor_ser, data, speed_temp, speed_hum,
                    final_speed, world, handler, reader, nsamples, nreplugs, nupdates, nreads,
                    temp_id, hum_id, fan_id, tt_id, mode_id, arb_modes >>

\* sensor_ser.in_waiting is 0
NoLinePending ==
    /\ pc = "read"
    /\ pc' = "log"
    /\ UNCHANGED << server, prober, tunings, shared, sensor_ser, motor_ser, data, speed_temp, speed_hum,
                    final_speed, world, handler, reader, counts, history >>

\* a line has arrived, d seconds after the one before: it is read,
\* stripped, tested for braces and parsed
ReadLine ==
    /\ pc = "read" /\ MoreEvents
    /\ \E line \in Lines, d \in DTs :
          /\ nsamples' = nsamples + 1
          /\ pid_temp' = Later(pid_temp, d)
          /\ pid_hum' = Later(pid_hum, d)
          /\ IF line.shape = "object"
             THEN data' = line /\ pc' = "set_temp"
             ELSE data' = data /\ pc' = "log"
    /\ UNCHANGED << server, prober, tunings, running, sensor_port, motor_port, current_temp, current_hum,
                    current_fan_speed, control_mode, target_temp, target_hum,
                    sensor_ser, motor_ser, speed_temp, speed_hum,
                    final_speed, world, handler, reader, nfaults, nreplugs, nupdates, nreads,
                    history >>

SetTempMergesKeys ==
    /\ pc = "set_temp"
    /\ current_temp' = data.temp
    /\ temp_id' = nsamples
    /\ target_temp' = IF \E kv \in data.others : kv[1] = "target_temp"
                      THEN (CHOOSE kv \in data.others : kv[1] = "target_temp")[2]
                      ELSE target_temp
    /\ pc' = "set_hum"
    /\ UNCHANGED << server, prober, tunings, running, sensor_port, motor_port, current_hum, current_fan_speed,
                    control_mode, target_hum, pid_temp, pid_hum,
                    sensor_ser, motor_ser, data, speed_temp, speed_hum, final_speed,
                    world, handler, reader, counts,
                    hum_id, fan_id, tt_id, mode_id, arb_modes, last_error >>

\* self.current_temp = data.get('temp')
SetTemp ==
    /\ pc = "set_temp"
    /\ current_temp' = data.temp
    /\ temp_id' = nsamples
    /\ pc' = "set_hum"
    /\ UNCHANGED << server, prober, tunings, running, sensor_port, motor_port, current_hum, current_fan_speed,
                    control_mode, target_temp, target_hum, pid_temp, pid_hum,
                    sensor_ser, motor_ser, data, speed_temp, speed_hum, final_speed,
                    world, handler, reader, counts,
                    hum_id, fan_id, tt_id, mode_id, arb_modes, last_error >>

SetHumKeepsOld ==
    /\ pc = "set_hum"
    /\ IF IsNone(current_hum)
       THEN current_hum' = data.hum /\ hum_id' = nsamples
       ELSE UNCHANGED << current_hum, hum_id >>
    /\ speed_temp' = 0 /\ speed_hum' = 0
    /\ pc' = IF ~IsNone(current_temp) THEN "sp_temp" ELSE "log"
    /\ UNCHANGED << server, prober, tunings, running, sensor_port, motor_port, current_temp, current_fan_speed,
                    control_mode, target_temp, target_hum, pid_temp, pid_hum,
                    sensor_ser, motor_ser, data, final_speed,
                    world, handler, reader, counts,
                    temp_id, fan_id, tt_id, mode_id, arb_modes, last_error >>

\* self.current_hum = data.get('hum'); speed_temp = 0; speed_hum = 0;
\* if self.current_temp is not None:
SetHum ==
    /\ pc = "set_hum"
    /\ current_hum' = data.hum
    /\ hum_id' = nsamples
    /\ speed_temp' = 0 /\ speed_hum' = 0
    /\ pc' = IF ~IsNone(current_temp) THEN "sp_temp" ELSE "log"
    /\ UNCHANGED << server, prober, tunings, running, sensor_port, motor_port, current_temp, current_fan_speed,
                    control_mode, target_temp, target_hum, pid_temp, pid_hum,
                    sensor_ser, motor_ser, data, final_speed,
                    world, handler, reader, counts,
                    temp_id, fan_id, tt_id, mode_id, arb_modes, last_error >>

\* self.pid_temp.setpoint = self.target_temp
RefreshTempSetpoint ==
    /\ pc = "sp_temp"
    /\ pid_temp' = [pid_temp EXCEPT !.setpoint = target_temp]
    /\ pc' = "sp_hum"
    /\ UNCHANGED << server, prober, tunings, running, sensor_port, motor_port, current_temp, current_hum,
                    current_fan_speed, control_mode, target_temp, target_hum, pid_hum,
                    sensor_ser, motor_ser, data, speed_temp, speed_hum, final_speed,
                    world, handler, reader, counts, history >>

\* self.pid_hum.setpoint = self.target_hum
RefreshHumSetpoint ==
    /\ pc = "sp_hum"
    /\ pid_hum' = [pid_hum EXCEPT !.setpoint = target_hum]
    /\ pc' = "calc_temp"
    /\ UNCHANGED << server, prober, tunings, running, sensor_port, motor_port, current_temp, current_hum,
                    current_fan_speed, control_mode, target_temp, target_hum, pid_temp,
                    sensor_ser, motor_ser, data, speed_temp, speed_hum, final_speed,
                    world, handler, reader, counts, history >>

\* speed_temp = int(self.pid_temp(self.current_temp)); the subtraction in
\* the controller raises TypeError for a value that is no number
CalcTemp ==
    /\ pc = "calc_temp"
    /\ IF IsNum(current_temp)
       THEN /\ pid_temp' = PidCall(pid_temp, TempGains, current_temp.v)
            /\ speed_temp' = IntOf(pid_temp'.last_output)
            /\ pc' = "calc_hum"
            /\ last_error' = last_error
       ELSE /\ pc' = "except"
            /\ last_error' = "type"
            /\ UNCHANGED << pid_temp, speed_temp >>
    /\ UNCHANGED << server, prober, tunings, running, sensor_port, motor_port, current_temp, current_hum,
                    current_fan_speed, control_mode, target_temp, target_hum, pid_hum,
                    sensor_ser, motor_ser, data, speed_hum, final_speed,
                    world, handler, reader, counts,
                    temp_id, hum_id, fan_id, tt_id, mode_id, arb_modes >>

\* speed_hum = int(self.pid_hum(self.current_hum)); final_speed = 0
CalcHum ==
    /\ pc = "calc_hum"
    /\ IF IsNum(current_hum)
       THEN /\ pid_hum' = PidCall(pid_hum, HumGains, current_hum.v)
            /\ speed_hum' = IntOf(pid_hum'.last_output)
            /\ final_speed' = 0
            /\ arb_modes' = {}
            /\ pc' = "arb_temp"
            /\ last_error' = last_error
       ELSE /\ pc' = "except"
            /\ last_error' = "type"
            /\ UNCHANGED << pid_hum, speed_hum, final_speed, arb_modes >>
    /\ UNCHANGED << server, prober, tunings, running, sensor_port, motor_port, current_temp, current_hum,
                    current_fan_speed, control_mode, target_temp, target_hum, pid_temp,
                    sensor_ser, motor_ser, data, speed_temp,
                    world, handler, reader, counts,
                    temp_id, hum_id, fan_id, tt_id, mode_id >>

AutoSpeedAverage(st, sh) == MaxAvg(st, sh)

\* final_speed = max(speed_temp, speed_hum)
AutoSpeed(st, sh) == Max(st, sh)

\* if self.control_mode == "TEMP": final_speed = speed_temp
ArbTemp ==
    /\ pc = "arb_temp"
    /\ arb_modes' = arb_modes \cup {control_mode}
    /\ IF control_mode = "TEMP"
       THEN final_speed' = speed_temp /\ pc' = "set_fan"
       ELSE final_speed' = final_speed /\ pc' = "arb_hum"
    /\ UNCHANGED << server, prober, tunings, shared, sensor_ser, motor_ser, data, speed_temp, speed_hum,
                    world, handler, reader, counts,
                    temp_id, hum_id, fan_id, tt_id, mode_id, last_error >>

\* elif self.control_mode == "HUM": final_speed = speed_hum
ArbHum ==
    /\ pc = "arb_hum"
    /\ arb_modes' = arb_modes \cup {control_mode}
    /\ IF control_mode = "HUM"
       THEN final_speed' = speed_hum /\ pc' = "set_fan"
       ELSE final_speed' = final_speed /\ pc' = "arb_auto"
    /\ UNCHANGED << server, prober, tunings, shared, sensor_ser, motor_ser, data, speed_temp, speed_hum,
                    world, handler, reader, counts,
                    temp_id, hum_id, fan_id, tt_id, mode_id, last_error >>

ArbAutoIsDefault ==
    /\ pc = "arb_auto"
    /\ arb_modes' = arb_modes \cup {control_mode}
    /\ final_speed' = AutoSpeed(speed_temp, speed_hum)
    /\ pc' = "set_fan"
    /\ UNCHANGED << server, prober, tunings, shared, sensor_ser, motor_ser, data, speed_temp, speed_hum,
                    world, handler, reader, counts,
                    temp_id, hum_id, fan_id, tt_id, mode_id, last_error >>

\* elif self.control_mode == "AUTO": final_speed = max(speed_temp, speed_hum)
ArbAuto ==
    /\ pc = "arb_auto"
    /\ arb_modes' = arb_modes \cup {control_mode}
    /\ final_speed' = IF control_mode = "AUTO"
                      THEN AutoSpeed(speed_temp, speed_hum)
                      ELSE final_speed
    /\ pc' = "set_fan"
    /\ UNCHANGED << server, prober, tunings, shared, sensor_ser, motor_ser, data, speed_temp, speed_hum,
                    world, handler, reader, counts,
                    temp_id, hum_id, fan_id, tt_id, mode_id, last_error >>

\* self.current_fan_speed = final_speed
SetFan ==
    /\ pc = "set_fan"
    /\ current_fan_speed' = final_speed
    /\ fan_id' = nsamples
    /\ pc' = "write"
    /\ UNCHANGED << server, prober, tunings, running, sensor_port, motor_port, current_temp, current_hum,
                    control_mode, target_temp, target_hum, pid_temp, pid_hum,
                    sensor_ser, motor_ser, data, speed_temp, speed_hum, final_speed,
                    world, handler, reader, counts,
                    temp_id, hum_id, tt_id, mode_id, arb_modes, last_error >>

WriteMotorOnChange ==
    /\ pc = "write"
    /\ motor_rx' = IF motor_rx # << >> /\ motor_rx[Len(motor_rx)] = current_fan_speed
                   THEN motor_rx
                   ELSE Append(motor_rx, current_fan_speed)
    /\ arb_modes' = {}
    /\ pc' = "log"
    /\ UNCHANGED << server, prober, tunings, shared, sensor_ser, motor_ser, data, speed_temp, speed_hum,
                    final_speed, ports, fds, db_rows, handler, reader, counts,
                    temp_id, hum_id, fan_id, tt_id, mode_id, last_error >>

\* motor_ser.write(json.dumps({"fan_speed": self.current_fan_speed}) + "\n")
WriteMotor ==
    /\ pc = "write"
    /\ motor_rx' = Append(motor_rx, current_fan_speed)
    /\ arb_modes' = {}
    /\ pc' = "log"
    /\ UNCHANGED << server, prober, tunings, shared, sensor_ser, motor_ser, data, speed_temp, speed_hum,
                    final_speed, ports, fds, db_rows, handler, reader, counts,
                    temp_id, hum_id, fan_id, tt_id, mode_id, last_error >>

\* motor_ser.write raises
MotorWriteFails ==
    /\ pc = "write" /\ MoreEvents
    /\ nfaults' = nfaults + 1
    /\ pc' = "except"
    /\ last_error' = "motor_io"
    /\ arb_modes' = {}
    /\ UNCHANGED << server, prober, tunings, shared, sensor_ser, motor_ser, data, speed_temp, speed_hum,
                    final_speed, world, handler, reader, nsamples, nreplugs, nupdates, nreads,
                    temp_id, hum_id, fan_id, tt_id, mode_id >>

\* the 30 s have not passed, or no reading was ever stored; time.sleep(0.1)
NoLog ==
    /\ pc = "log"
    /\ pc' = "top"
    /\ UNCHANGED << server, prober, tunings, shared, sensor_ser, motor_ser, data, speed_temp, speed_hum,
                    final_speed, world, handler, reader, counts, history >>

\* the 30 s have passed and a reading is stored: add and commit a row
LogReading ==
    /\ pc = "log" /\ ~IsNone(current_temp)
    /\ MoreEvents
    /\ db_rows' = db_rows + 1
    /\ pc' = "top"
    /\ UNCHANGED << server, prober, tunings, shared, sensor_ser, motor_ser, data, speed_temp, speed_hum,
                    final_speed, ports, fds, motor_rx, handler, reader, counts, history >>

\* db.session.add or db.session.commit raises
LogFails ==
    /\ pc = "log" /\ ~IsNone(current_temp)
    /\ MoreEvents
    /\ nfaults' = nfaults + 1
    /\ pc' = "except"
    /\ last_error' = "db"
    /\ UNCHANGED << server, prober, tunings, shared, sensor_ser, motor_ser, data, speed_temp, speed_hum,
                    final_speed, world, handler, reader, nsamples, nreplugs, nupdates, nreads,
                    temp_id, hum_id, fan_id, tt_id, mode_id, arb_modes >>

HandleErrorKeepsMotor ==
    /\ pc = "except"
    /\ fds' = fds \ {Fd(sensor_ser, "sensor")}
    /\ sensor_ser' = NoPort
    /\ pc' = "top"
    /\ UNCHANGED << server, prober, tunings, shared, motor_ser, data, speed_temp, speed_hum, final_speed,
                    ports, motor_rx, db_rows, handler, reader, counts, history >>

\* except Exception: close both links, drop them, time.sleep(2).  close()
\* of a link does not raise here.
HandleError ==
    /\ pc = "except"
    /\ fds' = fds \ {Fd(sensor_ser, "sensor"), Fd(motor_ser, "motor")}
    /\ sensor_ser' = NoPort
    /\ motor_ser' = NoPort
    /\ pc' = "top"
    /\ UNCHANGED << server, prober, tunings, shared, data, speed_temp, speed_hum, final_speed,
                    ports, motor_rx, db_rows, handler, reader, counts, history >>

(***************************************************************************)
(* app.py update_settings: three tests, three stores, no lock.             *)
(***************************************************************************)
BeginUpdate ==
    /\ h_pc = "idle" /\ MoreEvents
    /\ nupdates' = nupdates + 1
    /\ \E req \in Requests : h_req' = req
    /\ h_pc' = "h_temp"
    /\ UNCHANGED << server, prober, tunings, shared, locals, world, reader, nsamples, nfaults, nreplugs, nreads,
                    history >>

\* if 'target_temp' in data: serial_mgr.target_temp = float(data['target_temp'])
StoreTargetTemp ==
    /\ h_pc = "h_temp"
    /\ IF IsNone(h_req.target_temp)
       THEN UNCHANGED << target_temp, tt_id >>
       ELSE target_temp' = h_req.target_temp.v /\ tt_id' = nupdates
    /\ h_pc' = "h_hum"
    /\ UNCHANGED << server, prober, tunings, running, sensor_port, motor_port, current_temp, current_hum,
                    current_fan_speed, control_mode, target_hum, pid_temp, pid_hum,
                    locals, world, h_req, reader, counts,
                    temp_id, hum_id, fan_id, mode_id, arb_modes, last_error >>

\* if 'target_hum' in data: serial_mgr.target_hum = float(data['target_hum'])
StoreTargetHum ==
    /\ h_pc = "h_hum"
    /\ IF IsNone(h_req.target_hum)
       THEN UNCHANGED target_hum
       ELSE target_hum' = h_req.target_hum.v
    /\ h_pc' = "h_mode"
    /\ UNCHANGED << server, prober, tunings, running, sensor_port, motor_port, current_temp, current_hum,
                    current_fan_speed, control_mode, target_temp, pid_temp, pid_hum,
                    locals, world, h_req, reader, counts, history >>

StoreControlModeResetsFan ==
    /\ h_pc = "h_mode"
    /\ IF h_req.control_mode = NoMode
       THEN UNCHANGED << control_mode, mode_id, current_fan_speed >>
       ELSE /\ control_mode' = h_req.control_mode /\ mode_id' = nupdates
            /\ current_fan_speed' = 0
    /\ h_pc' = "idle"
    /\ UNCHANGED << server, prober, tunings, running, sensor_port, motor_port, current_temp, current_hum,
                    target_temp, target_hum, pid_temp, pid_hum,
                    locals, world, h_req, reader, counts,
                    temp_id, hum_id, fan_id, tt_id, arb_modes, last_error >>

\* if 'control_mode' in data: serial_mgr.control_mode = data['control_mode']
StoreControlMode ==
    /\ h_pc = "h_mode"
    /\ IF h_req.control_mode = NoMode
       THEN UNCHANGED << control_mode, mode_id >>
       ELSE control_mode' = h_req.control_mode /\ mode_id' = nupdates
    /\ h_pc' = "idle"
    /\ UNCHANGED << server, prober, tunings, running, sensor_port, motor_port, current_temp, current_hum,
                    current_fan_speed, target_temp, target_hum, pid_temp, pid_hum,
                    locals, world, h_req, reader, counts,
                    temp_id, hum_id, fan_id, tt_id, arb_modes, last_error >>

(***************************************************************************)
(* app.py get_live_data: the eight attributes are read one after another,  *)
(* without the lock, and the dictionary is returned.                       *)
(***************************************************************************)
BeginLive ==
    /\ r_pc = "idle" /\ MoreEvents
    /\ nreads' = nreads + 1
    /\ snap' = NoSnap
    /\ r_pc' = "temperature"
    /\ UNCHANGED << server, prober, tunings, shared, locals, world, handler,
                    nsamples, nfaults, nreplugs, nupdates, history >>

LiveReadings ==
    /\ r_pc \in {"temperature", "humidity", "fan_speed"}
    /\ CASE r_pc = "temperature" ->
                /\ snap' = [snap EXCEPT !.temperature = current_temp, !.temp_id = temp_id]
                /\ r_pc' = "humidity"
         [] r_pc = "humidity" ->
                /\ snap' = [snap EXCEPT !.humidity = current_hum, !.hum_id = hum_id]
                /\ r_pc' = "fan_speed"
         [] r_pc = "fan_speed" ->
                /\ snap' = [snap EXCEPT !.fan_speed = current_fan_speed, !.fan_id = fan_id]
                /\ r_pc' = "target_temperature"
    /\ UNCHANGED << server, prober, tunings, shared, locals, world, handler, counts, history >>

LiveSettings ==
    /\ r_pc \in {"target_temperature", "target_humidity", "control_mode"}
    /\ CASE r_pc = "target_temperature" ->
                /\ snap' = [snap EXCEPT !.target_temperature = target_temp, !.tt_id = tt_id]
                /\ r_pc' = "target_humidity"
         [] r_pc = "target_humidity" ->
                /\ snap' = [snap EXCEPT !.target_humidity = target_hum]
                /\ r_pc' = "control_mode"
         [] r_pc = "control_mode" ->
                /\ snap' = [snap EXCEPT !.control_mode = control_mode, !.mode_id = mode_id]
                /\ r_pc' = "active_sensor_port"
    /\ UNCHANGED << server, prober, tunings, shared, locals, world, handler, counts, history >>

LivePorts ==
    /\ r_pc \in {"active_sensor_port", "active_motor_port"}
    /\ CASE r_pc = "active_sensor_port" ->
                /\ snap' = [snap EXCEPT !.active_sensor_port = sensor_port]
                /\ r_pc' = "active_motor_port"
         [] r_pc = "active_motor_port" ->
                /\ snap' = [snap EXCEPT !.active_motor_port = motor_port]
                /\ r_pc' = "return"
    /\ UNCHANGED << server, prober, tunings, shared, locals, world, handler, counts, history >>

\* return jsonify({...})
LiveReturn ==
    /\ r_pc = "return"
    /\ snap' = NoSnap
    /\ r_pc' = "idle"
    /\ UNCHANGED << server, prober, tunings, shared, locals, world, handler, counts, history >>

(***************************************************************************)
(* The world: the process is told to stop; devices are unplugged, plugged  *)
(* in again or swapped.                                                    *)
(***************************************************************************)
Stop ==
    /\ running /\ MoreEvents
    /\ running' = FALSE
    /\ UNCHANGED << server, prober, tunings, sensor_port, motor_port, current_temp, current_hum,
                    current_fan_speed, control_mode, target_temp, target_hum,
                    pid_temp, pid_hum, locals, world, handler, reader, counts, history >>

Replug ==
    /\ MoreEvents
    /\ nreplugs' = nreplugs + 1
    /\ \E cfg \in PortConfigs \ {ports} : ports' = cfg
    /\ UNCHANGED << server, prober, tunings, shared, locals, fds, motor_rx, db_rows, handler, reader,
                    nsamples, nfaults, nupdates, nreads, history >>

Worker ==
    \/ LoopExit \/ Discover \/ CycleStart
    \/ SensorReadFails \/ NoLinePending \/ ReadLine
    \/ SetTemp \/ SetHum \/ RefreshTempSetpoint \/ RefreshHumSetpoint
    \/ CalcTemp \/ CalcHum \/ ArbTemp \/ ArbHum \/ ArbAuto
    \/ SetFan \/ WriteMotor \/ MotorWriteFails
    \/ NoLog \/ LogReading \/ LogFails \/ HandleError

Settings == BeginUpdate \/ StoreTargetTemp \/ StoreTargetHum \/ StoreControlMode

Live == BeginLive \/ LiveReadings \/ LiveSettings \/ LivePorts \/ LiveReturn

\* the worker, the settings requests and the world
Next == Worker \/ Settings \/ Stop \/ Replug

Spec == Init /\ [][Next]_vars

\* the same with live-data requests
NextLive == Next \/ Live

SpecLive == Init /\ [][NextLive]_vars

(***************************************************************************)
(* SerialManager._find_ports step by step, inside the recovery part of     *)
(* _worker.  Here a port is a device path and the lines the device on it   *)
(* delivers within the probe window, in read order; a line is the set of   *)
(* the words the probe looks for that occur in it.                         *)
(***************************************************************************)
Dev(d, out) == [device |-> d, out |-> out]

SensorLine == {"temp", "hum"}               \* {"temp":22.1,"hum":44.0}
BannerLine == {"Ready"}                     \* Ready
MotorBannerLine == {"Motor", "Ready"}       \* Motor Ready
BothLine   == {"temp", "hum", "Ready"}      \* Ready {"temp":22.1,"hum":44.0}
NoiseLine  == {}                            \* a partial or unrelated line

\* every order in which comports() can list the ports of ps
Orders(ps) ==
    { t \in [1..Len(ps) -> {ps[i] : i \in 1..Len(ps)}] :
         \A i \in 1..Len(ps) : \E j \in 1..Len(ps) : t[j] = ps[i] }

PortSets ==
    { << Dev("/dev/ttyACM0", << SensorLine >>),
         Dev("/dev/ttyACM1", << NoiseLine, MotorBannerLine >>),
         Dev("/dev/ttyUSB0", << >>) >>,
      << Dev("/dev/ttyACM0", << SensorLine >>),
         Dev("/dev/ttyACM1", << NoiseLine, SensorLine >>) >>,
      << Dev("/dev/ttyACM0", << BothLine >>),
         Dev("/dev/ttyS0", << BannerLine >>) >>,
      << >> }

ProbeConfigs == UNION { Orders(ps) : ps \in PortSets }

\* the lines of the device that is on the path now
OutOf(path) == ports[CHOOSE i \in 1..Len(ports) : ports[i].device = path].out

\* history: the scan has passed a port with this result, having been
\* delivered these lines
Passed(res, out) == [res |-> res, out |-> out]

\* the port the for loop is at
Candidate == p_ports[p_i]

ProbeStartIgnoresStop ==
    /\ pc = "top"
    /\ sensor_ser = NoPort \/ motor_ser = NoPort
    /\ p_ports' = ports
    /\ p_i' = 1
    /\ found_sensor' = NoPort /\ found_motor' = NoPort
    /\ p_class' = << >>
    /\ pc' = "scan"
    /\ UNCHANGED << shared, sensor_ser, motor_ser, data, speed_temp, speed_hum,
                    final_speed, world, handler, reader, counts, history,
                    p_s, p_out, p_line, is_sensor, is_motor, tunings, server >>

\* s, m = self._find_ports(): ports = list(comports()); found_sensor = None;
\* found_motor = None
ProbeStart ==
    /\ pc = "top" /\ running
    /\ sensor_ser = NoPort \/ motor_ser = NoPort
    /\ p_ports' = ports
    /\ p_i' = 1
    /\ found_sensor' = NoPort /\ found_motor' = NoPort
    /\ p_class' = << >>
    /\ pc' = "scan"
    /\ UNCHANGED << shared, sensor_ser, motor_ser, data, speed_temp, speed_hum,
                    final_speed, world, handler, reader, counts, history,
                    p_s, p_out, p_line, is_sensor, is_motor, tunings, server >>

\* for p in ports: the name of p.device does not match
ProbeSkip ==
    /\ pc = "scan" /\ p_i <= Len(p_ports)
    /\ ~NameMatches(Candidate.device)
    /\ p_class' = Append(p_class, Passed("skipped", << >>))
    /\ p_i' = p_i + 1
    /\ UNCHANGED << shared, locals, world, handler, reader, counts, history,
                    p_ports, p_s, p_out, p_line, is_sensor, is_motor,
                    found_sensor, found_motor, tunings, server >>

\* s = serial.Serial(p.device, 115200, timeout=2); time.sleep(2);
\* is_sensor = False; is_motor = False
ProbeOpen ==
    /\ pc = "scan" /\ p_i <= Len(p_ports)
    /\ NameMatches(Candidate.device)
    /\ CanOpen(Candidate.device)
    /\ p_s' = Candidate.device
    /\ fds' = fds \cup {Fd(Candidate.device, "probe")}
    /\ p_out' = OutOf(Candidate.device)
    /\ p_line' = 1
    /\ is_sensor' = FALSE /\ is_motor' = FALSE
    /\ pc' = "sniff"
    /\ UNCHANGED << shared, sensor_ser, motor_ser, data, speed_temp, speed_hum,
                    final_speed, ports, motor_rx, db_rows, handler, reader, counts,
                    history, p_ports, p_i, found_sensor, found_motor, p_class,
                    tunings, server >>

ProbeOpenFailAborts ==
    /\ pc = "scan" /\ p_i <= Len(p_ports)
    /\ NameMatches(Candidate.device)
    /\ \/ ~CanOpen(Candidate.device) /\ UNCHANGED nfaults
       \/ CanOpen(Candidate.device) /\ MoreEvents /\ nfaults' = nfaults + 1
    /\ p_class' = Append(p_class, Passed("openfail", << >>))
    /\ p_i' = Len(p_ports) + 1
    /\ UNCHANGED << shared, locals, world, handler, reader,
                    nsamples, nreplugs, nupdates, nreads, history,
                    p_ports, p_s, p_out, p_line, is_sensor, is_motor,
                    found_sensor, found_motor, tunings, server >>

\* serial.Serial raises: the device is gone since the enumeration, or the
\* port is busy or not permitted; except Exception: print, next port
ProbeOpenFails ==
    /\ pc = "scan" /\ p_i <= Len(p_ports)
    /\ NameMatches(Candidate.device)
    /\ \/ ~CanOpen(Candidate.device) /\ UNCHANGED nfaults
       \/ CanOpen(Candidate.device) /\ MoreEvents /\ nfaults' = nfaults + 1
    /\ p_class' = Append(p_class, Passed("openfail", << >>))
    /\ p_i' = p_i + 1
    /\ UNCHANGED << shared, locals, world, handler, reader,
                    nsamples, nreplugs, nupdates, nreads, history,
                    p_ports, p_s, p_out, p_line, is_sensor, is_motor,
                    found_sensor, found_motor, tunings, server >>

\* while time.time() - start < 3: if s.in_waiting: line = s.readline();
\* the sensor test comes first, a line that fits neither is passed over
ProbeLine ==
    /\ pc = "sniff" /\ p_line <= Len(p_out)
    /\ LET line == p_out[p_line]
       IN  IF "temp" \in line /\ "hum" \in line
           THEN is_sensor' = TRUE /\ pc' = "close"
                /\ UNCHANGED << is_motor, p_line >>
           ELSE IF "Motor" \in line \/ "Ready" \in line
                THEN is_motor' = TRUE /\ pc' = "close"
                     /\ UNCHANGED << is_sensor, p_line >>
                ELSE p_line' = p_line + 1
                     /\ UNCHANGED << pc, is_sensor, is_motor >>
    /\ UNCHANGED << shared, sensor_ser, motor_ser, data, speed_temp, speed_hum,
                    final_speed, world, handler, reader, counts, history,
                    p_ports, p_i, p_s, p_out, found_sensor, found_motor, p_class,
                    tunings, server >>

\* the 3 seconds are over and no line has classified the device
ProbeWindowEnds ==
    /\ pc = "sniff" /\ p_line > Len(p_out)
    /\ pc' = "close"
    /\ UNCHANGED << shared, sensor_ser, motor_ser, data, speed_temp, speed_hum,
                    final_speed, world, handler, reader, counts, history,
                    prober, tunings, server >>

\* s.in_waiting or s.readline() raises: except Exception: print, next
\* port.  s.close() is not reached; s stays bound to the open handle
ProbeReadFails ==
    /\ pc = "sniff" /\ MoreEvents
    /\ nfaults' = nfaults + 1
    /\ p_class' = Append(p_class, Passed("readfail", p_out))
    /\ p_i' = p_i + 1
    /\ pc' = "scan"
    /\ UNCHANGED << shared, sensor_ser, motor_ser, data, speed_temp, speed_hum,
                    final_speed, world, handler, reader,
                    nsamples, nreplugs, nupdates, nreads, history,
                    p_ports, p_s, p_out, p_line, is_sensor, is_motor,
                    found_sensor, found_motor, tunings, server >>

ProbeCloseSwapsRoles ==
    /\ pc = "close"
    /\ fds' = fds \ {Fd(p_s, "probe")}
    /\ found_sensor' = IF is_motor THEN Candidate.device ELSE found_sensor
    /\ found_motor' = IF is_sensor THEN Candidate.device ELSE found_motor
    /\ p_class' = Append(p_class, Passed(IF is_sensor THEN "sensor"
                                         ELSE IF is_motor THEN "motor" ELSE "unknown",
                                         p_out))
    /\ p_i' = p_i + 1
    /\ pc' = "scan"
    /\ UNCHANGED << shared, sensor_ser, motor_ser, data, speed_temp, speed_hum,
                    final_speed, ports, motor_rx, db_rows, handler, reader, counts,
                    history, p_ports, p_s, p_out, p_line, is_sensor, is_motor,
                    tunings, server >>

\* s.close(); if is_sensor: found_sensor = p.device
\* elif is_motor: found_motor = p.device
ProbeClose ==
    /\ pc = "close"
    /\ fds' = fds \ {Fd(p_s, "probe")}
    /\ found_sensor' = IF is_sensor THEN Candidate.device ELSE found_sensor
    /\ found_motor' = IF ~is_sensor /\ is_motor THEN Candidate.device ELSE found_motor
    /\ p_class' = Append(p_class, Passed(IF is_sensor THEN "sensor"
                                         ELSE IF is_motor THEN "motor" ELSE "unknown",
                                         p_out))
    /\ p_i' = p_i + 1
    /\ pc' = "scan"
    /\ UNCHANGED << shared, sensor_ser, motor_ser, data, speed_temp, speed_hum,
                    final_speed, ports, motor_rx, db_rows, handler, reader, counts,
                    history, p_ports, p_s, p_out, p_line, is_sensor, is_motor,
                    tunings, server >>

\* return found_sensor, found_motor; if s: self.sensor_port = s;
\* if m: self.motor_port = m.  Nothing refers to the handle s any more.
ProbeReturn ==
    /\ pc = "scan" /\ p_i > Len(p_ports)
    /\ sensor_port' = IF found_sensor # NoPort THEN found_sensor ELSE sensor_port
    /\ motor_port' = IF found_motor # NoPort THEN found_motor ELSE motor_port
    /\ p_s' = NoPort
    /\ pc' = "bind"
    /\ UNCHANGED << running, current_temp, current_hum, current_fan_speed,
                    control_mode, target_temp, target_hum, pid_temp, pid_hum,
                    sensor_ser, motor_ser, data, speed_temp, speed_hum, final_speed,
                    world, handler, reader, counts, history,
                    p_ports, p_i, p_out, p_line, is_sensor, is_motor,
                    found_sensor, found_motor, p_class, tunings, server >>

OpenLinksGivesUp ==
    /\ pc = "bind"
    /\ pc' = IF CanOpen(sensor_port) /\ CanOpen(motor_port) THEN "read" ELSE "done"
    /\ sensor_ser' = IF CanOpen(sensor_port) THEN sensor_port ELSE NoPort
    /\ motor_ser' = IF CanOpen(motor_port) THEN motor_port ELSE NoPort
    /\ fds' = fds \cup (IF CanOpen(sensor_port) THEN {Fd(sensor_port, "sensor")} ELSE {})
                  \cup (IF CanOpen(motor_port) THEN {Fd(motor_port, "motor")} ELSE {})
    /\ last_error' = "none"
    /\ p_ports' = << >> /\ p_i' = 1 /\ p_s' = NoPort /\ p_out' = << >> /\ p_line' = 1
    /\ is_sensor' = FALSE /\ is_motor' = FALSE
    /\ found_sensor' = NoPort /\ found_motor' = NoPort /\ p_class' = << >>
    /\ UNCHANGED << shared, data, speed_temp, speed_hum, final_speed,
                    ports, motor_rx, db_rows, handler, reader, counts,
                    temp_id, hum_id, fan_id, tt_id, mode_id, arb_modes,
                    tunings, server >>

\* a missing link whose port is known is opened (a failure leaves it
\* missing); without both links: time.sleep(5); continue.  Nothing of the
\* scan is left but what it stored in self.sensor_port and self.motor_port
OpenLinks ==
    /\ pc = "bind"
    /\ LET s == IF sensor_port # NoPort /\ sensor_ser = NoPort
                THEN (IF CanOpen(sensor_port) THEN sensor_port ELSE NoPort)
                ELSE sensor_ser
           m == IF motor_port # NoPort /\ motor_ser = NoPort
                THEN (IF CanOpen(motor_port) THEN motor_port ELSE NoPort)
                ELSE motor_ser
       IN  /\ sensor_ser' = s
           /\ motor_ser' = m
           /\ fds' = fds \cup (IF s # NoPort THEN {Fd(s, "sensor")} ELSE {})
                         \cup (IF m # NoPort THEN {Fd(m, "motor")} ELSE {})
           /\ pc' = IF s = NoPort \/ m = NoPort THEN "top" ELSE "read"
    /\ last_error' = "none"
    /\ p_ports' = << >> /\ p_i' = 1 /\ p_s' = NoPort /\ p_out' = << >> /\ p_line' = 1
    /\ is_sensor' = FALSE /\ is_motor' = FALSE
    /\ found_sensor' = NoPort /\ found_motor' = NoPort /\ p_class' = << >>
    /\ UNCHANGED << shared, data, speed_temp, speed_hum, final_speed,
                    ports, motor_rx, db_rows, handler, reader, counts,
                    temp_id, hum_id, fan_id, tt_id, mode_id, arb_modes,
                    tunings, server >>

\* a probe handle that nothing refers to any more is closed when the
\* interpreter finalises it
Finalise ==
    /\ \E fd \in fds :
          /\ fd.role = "probe" /\ fd.path # p_s
          /\ fds' = fds \ {fd}
    /\ UNCHANGED << shared, locals, ports, motor_rx, db_rows, handler, reader,
                    counts, history, prober, tunings, server >>

\* devices are unplugged, plugged in or swapped
ProbeReplug ==
    /\ MoreEvents
    /\ nreplugs' = nreplugs + 1
    /\ \E cfg \in ProbeConfigs \ {ports} : ports' = cfg
    /\ UNCHANGED << shared, locals, fds, motor_rx, db_rows, handler, reader,
                    nsamples, nfaults, nupdates, nreads, history, prober, tunings, server >>

InitProbe ==
    /\ Constructed
    /\ ports \in ProbeConfigs

\* the worker: recovery step by step, and the cycles of the main part in
\* which no line is pending or the sensor read raises
ProbeWorker ==
    \/ LoopExit \/ ProbeStart \/ ProbeSkip \/ ProbeOpen \/ ProbeOpenFails
    \/ ProbeLine \/ ProbeWindowEnds \/ ProbeReadFails \/ ProbeClose
    \/ ProbeReturn \/ OpenLinks
    \/ CycleStart \/ NoLinePending \/ NoLog \/ SensorReadFails \/ HandleError

NextProbe == ProbeWorker \/ Finalise \/ ProbeReplug \/ Stop

SpecProbe == InitProbe /\ [][NextProbe]_vars

\* the worker thread keeps running: it is never suspended for ever
SpecProbeFair == SpecProbe /\ WF_vars(ProbeWorker)

(***************************************************************************)
(* The control computation of one sample as a whole (lines 126-153), for   *)
(* the properties of the controllers: valid samples are fed one after the  *)
(* other, with targets, mode and tunings as they were set before.          *)
(***************************************************************************)
\* the tunings of the worked example: proportional only
POnlyGains == [p |-> -1000, i |-> 0, d |-> 0]       \* (-10, 0, 0)

PidSamples ==
    { Obj(Num(250), Num(600)),      \* {"temp": 25.0, "hum": 60.0}
      Obj(Num(220), Num(500)),      \* {"temp": 22.0, "hum": 50.0}
      Obj(Num(1000), Num(900)) }    \* {"temp": 100.0, "hum": 90.0}

PidTargets == {DefaultTargetTemp, 240}      \* 22.0, 24.0

PidDTs == {30, 60}      \* seconds from one sample to the next

\* final_speed = 0; if self.control_mode == "TEMP": ... elif "HUM": ...
\* elif "AUTO": ...
FinalSpeed(mode, st, sh) ==
    IF mode = "TEMP" THEN st
    ELSE IF mode = "HUM" THEN sh
    ELSE IF mode = "AUTO" THEN AutoSpeed(st, sh)
    ELSE 0

\* the line sample arrives d seconds after the one before and is processed
ControlStep(sample, d) ==
    /\ data' = sample
    /\ current_temp' = sample.temp
    /\ current_hum' = sample.hum
    /\ pid_temp' = PidCall(Later([pid_temp EXCEPT !.setpoint = target_temp], d),
                           tunings, sample.temp.v)
    /\ pid_hum' = PidCall(Later([pid_hum EXCEPT !.setpoint = target_hum], d),
                          HumGains, sample.hum.v)
    /\ speed_temp' = IntOf(pid_temp'.last_output)
    /\ speed_hum' = IntOf(pid_hum'.last_output)
    /\ final_speed' = FinalSpeed(control_mode, speed_temp', speed_hum')
    /\ current_fan_speed' = final_speed'

\* the sensor sends the sample it sent before
FeedSame ==
    /\ \E d \in PidDTs : ControlStep(data, d)
    /\ UNCHANGED << running, sensor_port, motor_port, control_mode, target_temp,
                    target_hum, pc, sensor_ser, motor_ser, world, handler, reader,
                    counts, history, prober, tunings, server >>

\* the sensor sends another sample
FeedOther ==
    /\ MoreEvents
    /\ nsamples' = nsamples + 1
    /\ \E sample \in PidSamples \ {data}, d \in PidDTs : ControlStep(sample, d)
    /\ UNCHANGED << running, sensor_port, motor_port, control_mode, target_temp,
                    target_hum, pc, sensor_ser, motor_ser, world, handler, reader,
                    nfaults, nreplugs, nupdates, nreads, history, prober, tunings, server >>

\* both links are open, settings were stored, the first sample is due
InitPid ==
    /\ running = TRUE
    /\ sensor_port = "/dev/ttyACM0" /\ motor_port = "/dev/ttyACM1"
    /\ sensor_ser = sensor_port /\ motor_ser = motor_port
    /\ ports = InitialPorts
    /\ fds = {Fd(sensor_ser, "sensor"), Fd(motor_ser, "motor")}
    /\ pc = "read"
    /\ current_temp = None /\ current_hum = None /\ current_fan_speed = 0
    /\ control_mode \in {"TEMP", "HUM", "AUTO"}
    /\ target_temp \in PidTargets /\ target_hum = DefaultTargetHum
    /\ tunings \in {TempGains, POnlyGains}
    /\ pid_temp = NewPid(DefaultTargetTemp) /\ pid_hum = NewPid(DefaultTargetHum)
    /\ data \in PidSamples
    /\ speed_temp = 0 /\ speed_hum = 0 /\ final_speed = 0
    /\ motor_rx = << >> /\ db_rows = 0
    /\ h_pc = "idle" /\ h_req = NoRequest
    /\ r_pc = "idle" /\ snap = NoSnap
    /\ nsamples = 0 /\ nfaults = 0 /\ nreplugs = 0 /\ nupdates = 0 /\ nreads = 0
    /\ temp_id = 0 /\ hum_id = 0 /\ fan_id = 0 /\ tt_id = 0 /\ mode_id = 0
    /\ arb_modes = {} /\ last_error = "none"
    /\ ProberIdle
    /\ ServerLoaded

NextPid == FeedSame \/ FeedOther

SpecPid == InitPid /\ [][NextPid]_vars

\* the sensor keeps sending
SpecPidFair == SpecPid /\ WF_vars(NextPid)

(***************************************************************************)
(* server.py: serial_worker, the background thread of the single-device    *)
(* server; one device sends measurements and state as JSON lines.          *)
(***************************************************************************)
UsbConfigs ==
    { UsbInitial,
      << "/dev/cu.Bluetooth-Incoming-Port", "/dev/cu.usbserial-10" >>,
      << "/dev/cu.Bluetooth-Incoming-Port" >>,
      << >> }

\* 'usbmodem' in p.device or 'usbserial' in p.device or 'COM' in p.device
UsbMatches(device) == device \in {"/dev/cu.usbmodem1101", "/dev/cu.usbserial-10", "COM3"}

UsbCandidates == SelectSeq(usb, UsbMatches)

ServerLines ==
    { \* {"temp": 23.5, "hum": 40.0, "pwm": 120}
      Rx("utf8", "object", { << "temp", 235 >>, << "hum", 400 >>, << "pwm", 120 >> }),
      \* {"pwm": 0}
      Rx("utf8", "object", { << "pwm", 0 >> }),
      Rx("utf8", "number", {}),         \* 42
      Rx("utf8", "nojson", {}),         \* Ready
      Rx("utf8", "empty", {}),          \* only white space
      Rx("malformed", "nojson", {}) }   \* a byte that is no UTF-8, as 0xFF

\* bytes.decode('utf-8'): the default is errors='strict'
DecodeRaises(l) == l.bytes = "malformed"

\* json.loads(line) raises JSONDecodeError
LoadsRaises(l) == l.text = "nojson"

\* latest_data.update(data) raises for a value that is no mapping and
\* cannot be iterated as pairs (TypeError for a number)
UpdateRaises(l) == l.text # "object"

HasKey(kvs, k) == \E kv \in kvs : kv[1] = k

\* dict.update for the keys the model keeps
Updated(d, kvs) ==
    [k \in DOMAIN d |->
        IF HasKey(kvs, k) THEN (CHOOSE kv \in kvs : kv[1] = k)[2] ELSE d[k]]

ServerMore == w_events + rows + (IF stop_event THEN 1 ELSE 0) < MaxEvents

\* while not stop_event.is_set(): (the loop ends); if serial_connection:
\* serial_connection.close()
WorkerExit ==
    /\ w_pc = "top" /\ stop_event
    /\ serial_connection' = [serial_connection EXCEPT !.is_open = FALSE]
    /\ w_pc' = "done"
    /\ UNCHANGED << latest_data, stop_event, rx, usb, rows, w_error, w_events,
                    shared, locals, world, handler, reader, counts, history,
                    prober, tunings >>

\* no open connection and a matching port: open the first, sleep 2 s
Connect ==
    /\ w_pc = "top" /\ ~stop_event
    /\ ~serial_connection.is_open
    /\ UsbCandidates # << >>
    /\ serial_connection' = Conn(UsbCandidates[1], TRUE)
    /\ latest_data' = [latest_data EXCEPT !.connected = TRUE]
    /\ w_error' = "none"
    /\ UNCHANGED << stop_event, w_pc, rx, usb, rows, w_events,
                    shared, locals, world, handler, reader, counts, history,
                    prober, tunings >>

\* serial.Serial raises (the port is busy): print, sleep 2 s
ConnectFails ==
    /\ w_pc = "top" /\ ~stop_event
    /\ ~serial_connection.is_open
    /\ UsbCandidates # << >>
    /\ ServerMore
    /\ w_events' = w_events + 1
    /\ UNCHANGED << serial_connection, latest_data, stop_event, w_pc, rx, usb, rows,
                    w_error,
                    shared, locals, world, handler, reader, counts, history,
                    prober, tunings >>

\* no matching port: connected is False, sleep 2 s
NoPorts ==
    /\ w_pc = "top" /\ ~stop_event
    /\ ~serial_connection.is_open
    /\ UsbCandidates = << >>
    /\ latest_data' = [latest_data EXCEPT !.connected = FALSE]
    /\ UNCHANGED << serial_connection, stop_event, w_pc, rx, usb, rows, w_error,
                    w_events,
                    shared, locals, world, handler, reader, counts, history,
                    prober, tunings >>

\* the connection is open: the cycle goes on to the try block
Poll ==
    /\ w_pc = "top" /\ ~stop_event
    /\ serial_connection.is_open
    /\ w_pc' = "poll"
    /\ UNCHANGED << serial_connection, latest_data, stop_event, rx, usb, rows,
                    w_error, w_events,
                    shared, locals, world, handler, reader, counts, history,
                    prober, tunings >>

\* serial_connection.in_waiting is 0
NothingWaiting ==
    /\ w_pc = "poll"
    /\ w_pc' = "top"
    /\ UNCHANGED << serial_connection, latest_data, stop_event, rx, usb, rows,
                    w_error, w_events,
                    shared, locals, world, handler, reader, counts, history,
                    prober, tunings >>

\* in_waiting or readline() raises (the device is gone)
PollFails ==
    /\ w_pc = "poll" /\ ServerMore
    /\ w_events' = w_events + 1
    /\ w_error' = "io"
    /\ w_pc' = "except"
    /\ UNCHANGED << serial_connection, latest_data, stop_event, rx, usb, rows,
                    shared, locals, world, handler, reader, counts, history,
                    prober, tunings >>

\* line = serial_connection.readline().decode('utf-8').strip();
\* if not line: continue
Receive ==
    /\ w_pc = "poll" /\ ServerMore
    /\ w_events' = w_events + 1
    /\ \E l \in ServerLines :
          /\ rx' = l
          /\ IF DecodeRaises(l)
             THEN w_pc' = "except" /\ w_error' = "decode"
             ELSE /\ w_error' = "none"
                  /\ w_pc' = IF l.text = "empty" THEN "top" ELSE "loads"
    /\ UNCHANGED << serial_connection, latest_data, stop_event, usb, rows,
                    shared, locals, world, handler, reader, counts, history,
                    prober, tunings >>

\* data = json.loads(line); except json.JSONDecodeError: print
Loads ==
    /\ w_pc = "loads"
    /\ w_pc' = IF LoadsRaises(rx) THEN "top" ELSE "update"
    /\ UNCHANGED << serial_connection, latest_data, stop_event, rx, usb, rows,
                    w_error, w_events,
                    shared, locals, world, handler, reader, counts, history,
                    prober, tunings >>

\* latest_data.update(data); latest_data["connected"] = True; a row is
\* logged for data with temp and hum (log_data catches what it raises)
Update ==
    /\ w_pc = "update"
    /\ IF UpdateRaises(rx)
       THEN /\ w_pc' = "except" /\ w_error' = "update"
            /\ UNCHANGED << latest_data, rows >>
       ELSE /\ latest_data' = [Updated(latest_data, rx.keys) EXCEPT !.connected = TRUE]
            /\ rows' = IF HasKey(rx.keys, "temp") /\ HasKey(rx.keys, "hum")
                       THEN rows + 1 ELSE rows
            /\ w_pc' = "top" /\ w_error' = w_error
    /\ UNCHANGED << serial_connection, stop_event, rx, usb, w_events,
                    shared, locals, world, handler, reader, counts, history,
                    prober, tunings >>

\* except Exception: close the connection, drop it, connected is False
WorkerHandleError ==
    /\ w_pc = "except"
    /\ serial_connection' = NoConn
    /\ latest_data' = [latest_data EXCEPT !.connected = FALSE]
    /\ w_pc' = "top"
    /\ UNCHANGED << stop_event, rx, usb, rows, w_error, w_events,
                    shared, locals, world, handler, reader, counts, history,
                    prober, tunings >>

\* KeyboardInterrupt in the main thread: stop_event.set()
SetStop ==
    /\ ~stop_event /\ ServerMore
    /\ stop_event' = TRUE
    /\ UNCHANGED << serial_connection, latest_data, w_pc, rx, usb, rows, w_error,
                    w_events,
                    shared, locals, world, handler, reader, counts, history,
                    prober, tunings >>

\* the device is unplugged or plugged into another port
UsbReplug ==
    /\ ServerMore
    /\ w_events' = w_events + 1
    /\ \E cfg \in UsbConfigs \ {usb} : usb' = cfg
    /\ UNCHANGED << serial_connection, latest_data, stop_event, w_pc, rx, rows,
                    w_error,
                    shared, locals, world, handler, reader, counts, history,
                    prober, tunings >>

serial_worker ==
    \/ WorkerExit \/ Connect \/ ConnectFails \/ NoPorts
    \/ Poll \/ NothingWaiting \/ PollFails \/ Receive \/ Loads \/ Update
    \/ WorkerHandleError

NextServer == serial_worker \/ SetStop \/ UsbReplug

SpecServer == Init /\ [][NextServer]_vars

(***************************************************************************)
(* Properties                                                              *)
(***************************************************************************)
IoErrors == {"sensor_io", "motor_io"}

\* C1: current_fan_speed is always an integer in [0, 255], and so is the
\* fan_speed of every command written to the motor link.
C1_FanSpeedInRange ==
    /\ current_fan_speed \in 0..255
    /\ \A i \in 1..Len(motor_rx) : motor_rx[i] \in 0..255

\* the 100.0 degree sample has been processed and its command, clamped to
\* 255, has been written
C1_Witness ==
    /\ pc = "log"
    /\ data.temp = Num(1000)
    /\ fan_id = nsamples
    /\ Len(motor_rx) > 0
    /\ motor_rx[Len(motor_rx)] = 255

C4_ErrorClearsBoundPorts ==
    (pc = "top" /\ last_error \in IoErrors) =>
        (sensor_port = NoPort /\ motor_port = NoPort)

\* C5 (as claimed): when the commit of the periodic reading (here one of
\* two numbers) raises, both links stay open.
C5_PersistFailureKeepsLinks ==
    (last_error = "db" /\ IsNum(current_temp) /\ IsNum(current_hum)) =>
        (sensor_ser # NoPort /\ motor_ser # NoPort)

\* C6 (as claimed): while a line whose temp value is not a number is being
\* processed, the readings in shared state do not change and no command is
\* written.
C6_WrongTypeLeavesReadings ==
    [][ (data.temp = Str /\ pc \in {"set_temp", "set_hum", "calc_temp"}) =>
            /\ current_temp' = current_temp
            /\ current_hum' = current_hum
            /\ motor_rx' = motor_rx ]_vars

\* C7 (as claimed): a line with a missing or non-numeric temp or hum never
\* makes the worker leave the operating state: no cycle ends in the except
\* block because of the line's content.
C7_MalformedLineNotFatal ==
    ~(pc = "top" /\ last_error = "type"
        /\ (sensor_ser = NoPort \/ motor_ser = NoPort))

\* C8 (as claimed): a controller is never called with a setpoint other
\* than the target stored in shared state.
C8_ComputationUsesStoredTarget ==
    /\ pc = "calc_temp" => pid_temp.setpoint = target_temp
    /\ pc = "calc_hum" => pid_hum.setpoint = target_hum

\* C9 (as claimed): a returned snapshot holds the temperature and the
\* humidity of one sample, and never the target of a settings request
\* together with the mode from before that request.
C9_SnapshotConsistent ==
    r_pc = "return" =>
        /\ snap.temp_id = snap.hum_id
        /\ (nupdates > 0 /\ snap.tt_id = nupdates /\ h_req.control_mode # NoMode)
              => snap.mode_id = nupdates

\* C10: the fan speed in shared state never comes from a sample whose
\* readings are not in shared state yet, a command is written only after a
\* fan speed was published, and while the command of the current sample is
\* published or written the readings and controller inputs are that sample's.
C10_OutputAfterReadings ==
    /\ fan_id <= temp_id /\ fan_id <= hum_id
    /\ Len(motor_rx) > 0 => fan_id > 0
    /\ pc \in {"set_fan", "write"} =>
          /\ temp_id = nsamples /\ hum_id = nsamples
          /\ current_temp = data.temp /\ current_hum = data.hum
          /\ pid_temp.last_input = data.temp.v
          /\ pid_hum.last_input = data.hum.v

\* the second sample's command has been published and written
C10_Witness ==
    /\ pc = "log"
    /\ fan_id = 2 /\ temp_id = 2 /\ hum_id = 2
    /\ Len(motor_rx) = 2

(***************************************************************************)
(* Properties of the port scan                                             *)
(***************************************************************************)
\* lines with both sensor keys, lines with a banner word
EmitsReadings(out) == \E k \in 1..Len(out) : {"temp", "hum"} \subseteq out[k]
EmitsBanner(out)   == \E k \in 1..Len(out) : "Motor" \in out[k] \/ "Ready" \in out[k]

\* the scan is over and its result is about to be used
Scanned == pc = "bind"

\* positions of the candidate ports of the scan, and of those that were
\* opened and read without an error
Candidates == { i \in 1..Len(p_ports) : NameMatches(p_ports[i].device) }
Sniffed == { i \in 1..Len(p_class) : p_class[i].res \in {"sensor", "motor", "unknown"} }

\* every candidate was sniffed; exactly one of them delivered temp/hum
\* lines and exactly one other a banner
OneSensorOneMotor(i, j) ==
    /\ Len(p_class) = Len(p_ports) /\ Sniffed = Candidates
    /\ i \in Sniffed /\ j \in Sniffed /\ i # j
    /\ \A k \in Sniffed : EmitsReadings(p_class[k].out) <=> k = i
    /\ \A k \in Sniffed : EmitsBanner(p_class[k].out) <=> k = j

\* C11: a scan over candidates of which exactly one delivers temp/hum lines
\* and exactly one other delivers a banner returns the path of the first as
\* the sensor and the path of the second as the motor, wherever the two
\* stand in the enumeration.
C11_ProbePairsRoles ==
    Scanned =>
        \A i, j \in 1..Len(p_ports) :
            OneSensorOneMotor(i, j) =>
                /\ found_sensor = p_ports[i].device
                /\ found_motor = p_ports[j].device

\* three candidates, the motor enumerated before the sensor and a silent
\* device between them
C11_Witness ==
    /\ Scanned
    /\ Len(p_ports) = 3
    /\ OneSensorOneMotor(3, 1)
    /\ found_sensor = "/dev/ttyACM0" /\ found_motor = "/dev/ttyACM1"

\* position i is the first one the scan classified as res
FirstAs(i, res) ==
    /\ i \in 1..Len(p_class) /\ p_class[i].res = res
    /\ \A k \in 1..(i - 1) : p_class[k].res # res

\* C12 (as claimed): the path returned for a role is that of the first
\* port classified for it in enumeration order, and a port whose first
\* line holds both sensor keys and a banner word is classified as sensor.
C12_FirstMatchWins ==
    Scanned =>
        \A i \in 1..Len(p_class) :
            /\ FirstAs(i, "sensor") => found_sensor = p_ports[i].device
            /\ FirstAs(i, "motor") => found_motor = p_ports[i].device
            /\ (i \in Sniffed /\ Len(p_class[i].out) > 0
                   /\ BothLine \subseteq p_class[i].out[1])
                  => p_class[i].res = "sensor"

\* C13 (as claimed): when the scan has returned, no handle it opened is
\* still open.
C13_ProbeClosesAll ==
    Scanned => ~\E fd \in fds : fd.role = "probe"

\* C14 (as claimed): the scan never has a handle open on the path of a
\* link that is open.
C14_NoProbeOfOpenLink ==
    \A fd \in fds :
        fd.role = "probe" /\ fd.path = p_s =>
            /\ Fd(fd.path, "sensor") \notin fds
            /\ Fd(fd.path, "motor") \notin fds

\* position i is the last one the scan classified as res
LastAs(i, res) ==
    /\ i \in 1..Len(p_class) /\ p_class[i].res = res
    /\ \A k \in (i + 1)..Len(p_class) : p_class[k].res # res

\* C18: an open that raises ends only the iteration of its own port.  When
\* the scan returns it has passed every enumerated port, has tried to open
\* every candidate, also those after a failed one, and returns for each
\* role the last port it classified for it.
C18_OpenFailureDoesNotAbort ==
    Scanned =>
        /\ Len(p_class) = Len(p_ports)
        /\ \A i \in 1..Len(p_class) :
              /\ NameMatches(p_ports[i].device) <=> p_class[i].res # "skipped"
              /\ LastAs(i, "sensor") => found_sensor = p_ports[i].device
              /\ LastAs(i, "motor") => found_motor = p_ports[i].device

\* the first port could not be opened; the two after it were classified
\* and are returned
C18_Witness ==
    /\ Scanned
    /\ Len(p_class) = 3
    /\ p_class[1].res = "openfail"
    /\ \E i, j \in {2, 3} :
          /\ p_class[i].res = "sensor" /\ found_sensor = p_ports[i].device
          /\ p_class[j].res = "motor" /\ found_motor = p_ports[j].device

\* what the read loop of the scan makes of the lines out, from line k on
RECURSIVE Sniff(_, _)
Sniff(out, k) ==
    IF k > Len(out) THEN "unknown"
    ELSE IF "temp" \in out[k] /\ "hum" \in out[k] THEN "sensor"
    ELSE IF "Motor" \in out[k] \/ "Ready" \in out[k] THEN "motor"
    ELSE Sniff(out, k + 1)

\* a sensor and a motor are plugged in on candidate ports
GoodPorts ==
    \E i, j \in 1..Len(ports) :
        /\ NameMatches(ports[i].device) /\ Sniff(ports[i].out, 1) = "sensor"
        /\ NameMatches(ports[j].device) /\ Sniff(ports[j].out, 1) = "motor"

\* both links are open and the worker is in the main part of its cycle
Operating == pc = "read" /\ sensor_ser # NoPort /\ motor_ser # NoPort

\* C15: the worker ends only when running is false, and if from some point
\* on the process keeps running with a sensor and a motor plugged in (and
\* opens and reads stop failing, as they do once the faults the model
\* takes are used up), the worker gets to the operating state with both
\* links open, again after every error.
C15_DiscoveryNeverGivesUp ==
    /\ [](pc = "done" => ~running)
    /\ (<>[](running /\ GoodPorts)) => []<>Operating

\* the devices were plugged after the start, a link failed, and the worker
\* operates on the sensor and the motor that are there now
C15_Witness ==
    /\ Operating /\ running
    /\ nreplugs > 0 /\ nfaults > 0
    /\ CanOpen(sensor_ser) /\ Sniff(OutOf(sensor_ser), 1) = "sensor"
    /\ CanOpen(motor_ser) /\ Sniff(OutOf(motor_ser), 1) = "motor"

ValidSampleSeen == fan_id > 0

\* C17 (as claimed): when the 30 s have passed at the end of a cycle, a
\* reading is stored if and only if a valid sample has been seen before.
C17_ReadingIffValidSeen ==
    (pc = "log" /\ MoreEvents) => (ENABLED LogReading <=> ValidSampleSeen)

C20_SteadySampleSettles ==
    (<>[][data' = data]_vars) => (<>[][current_fan_speed' = current_fan_speed]_vars)

\* 25.0 degrees with the target 22.0 from the first sample on: the
\* integral has grown to its limit and the fan speed has settled at 255
C20_Witness ==
    /\ tunings = TempGains /\ control_mode = "TEMP"
    /\ nsamples = 0 /\ data.temp = Num(250) /\ target_temp = 220
    /\ pid_temp.integral = OutHi * Unit
    /\ current_fan_speed = 255

(***************************************************************************)
(* Keys of a sensor object.                                                *)
(***************************************************************************)
\* the worker is between json.loads and the end of the sample's processing
Processing ==
    pc \in {"set_temp", "set_hum", "sp_temp", "sp_hum", "calc_temp", "calc_hum",
            "arb_temp", "arb_hum", "arb_auto", "set_fan", "write"}

\* C21: once the two readings of a sensor object are stored, a reading whose
\* key the object lacks is None (and so is not the number 0), until the next
\* object; and no step of the sample's processing changes the targets, the
\* mode, the bound ports or the running flag, or stores in a reading or in
\* the fan speed anything but the object's temp, its hum and the computed
\* speed, whatever further keys the object has.
C21_MissingKeyIsNone ==
    /\ [](pc # "set_temp" /\ IsNone(data.temp)
            => IsNone(current_temp) /\ current_temp # Num(0))
    /\ [](pc \notin {"set_temp", "set_hum"} /\ IsNone(data.hum)
            => IsNone(current_hum) /\ current_hum # Num(0))
    /\ [][ (Processing /\ pc' # pc) =>
             /\ UNCHANGED << target_temp, target_hum, control_mode,
                             sensor_port, motor_port, running >>
             /\ current_temp' \in {current_temp, data.temp}
             /\ current_hum' \in {current_hum, data.hum}
             /\ current_fan_speed' \in {current_fan_speed, final_speed} ]_vars

\* {"hum": 60.0, "target_temp": 99.0, "fan_speed": 99} has been processed
\* after a complete sample
C21_Witness ==
    /\ pc = "log" /\ nsamples = 2 /\ temp_id = 2 /\ hum_id = 2 /\ fan_id = 1
    /\ data = WithKeys(Obj(None, Num(600)), OtherKeys)
    /\ IsNone(current_temp) /\ current_hum = Num(600)
    /\ target_temp = DefaultTargetTemp

(***************************************************************************)
(* What a settings request changes.                                        *)
(***************************************************************************)
\* C22: the fan speed is stored only by the worker's assignment after the
\* arbitration; a step of update_settings leaves the fan speed, the two
\* readings, the bound ports and the running flag as they are; and a target
\* or the mode changes only in the handler's step for that key, to the value
\* the request gives for it.
C22_SettingsFrame ==
    /\ [][ (current_fan_speed' # current_fan_speed \/ fan_id' # fan_id)
             => pc = "set_fan" /\ pc' = "write"
                /\ current_fan_speed' = final_speed ]_vars
    /\ [][ h_pc' # h_pc =>
             UNCHANGED << current_fan_speed, current_temp, current_hum,
                          sensor_port, motor_port, running, fan_id >> ]_vars
    /\ [][ target_temp' # target_temp =>
             /\ h_pc = "h_temp" /\ IsNum(h_req.target_temp)
             /\ target_temp' = h_req.target_temp.v ]_vars
    /\ [][ target_hum' # target_hum =>
             /\ h_pc = "h_hum" /\ IsNum(h_req.target_hum)
             /\ target_hum' = h_req.target_hum.v ]_vars
    /\ [][ control_mode' # control_mode =>
             /\ h_pc = "h_mode" /\ h_req.control_mode # NoMode
             /\ control_mode' = h_req.control_mode ]_vars

\* a request naming target_hum and control_mode has been handled while the
\* fan runs on the first sample's output
C22_Witness ==
    /\ h_pc = "idle" /\ nupdates = 1 /\ mode_id = 1
    /\ control_mode = "HUM" /\ target_hum = 550
    /\ target_temp = DefaultTargetTemp
    /\ fan_id = 1 /\ current_fan_speed > 0
    /\ current_temp = Num(250) /\ sensor_port # NoPort /\ motor_port # NoPort

(***************************************************************************)
(* Properties of serial_worker (server.py)                                 *)
(***************************************************************************)
\* the bytes of the line are no UTF-8, or its content is no JSON object
BadLine(l) == l.bytes = "malformed" \/ l.text \in {"nojson", "number"}

\* C23 (as claimed): when serial_worker has handled a line with malformed
\* bytes or with content that is no JSON object, and nothing else has
\* failed, the connection is still open and connected is still true.
C23_BadLineKeepsLink ==
    (w_pc = "top" /\ BadLine(rx) /\ w_error # "io" /\ ~stop_event) =>
        serial_connection.is_open /\ latest_data.connected

(***************************************************************************)
(* Commands to the motor                                                   *)
(***************************************************************************)
\* a JSON object with a number for temp and a number for hum
Valid(d) == d.shape = "object" /\ IsNum(d.temp) /\ IsNum(d.hum)

\* C24: a command is appended to what the motor receives only by the write
\* that ends the processing of a valid sample, with both links open, and it
\* carries the fan speed just stored; the processing of a valid sample does
\* not end before that write, the write is reached once per line read, and
\* unless the write raises it sends one command; a step from the top of the
\* cycle (the recovery included), a cycle without a pending line or with a
\* line that is no object, and the logging change neither the commands nor
\* the readings nor the fan speed.
C24_CommandPerValidSample ==
    /\ [][ motor_rx' # motor_rx =>
             /\ pc = "write" /\ Valid(data)
             /\ current_temp = data.temp /\ current_hum = data.hum
             /\ fan_id = nsamples
             /\ sensor_ser # NoPort /\ motor_ser # NoPort
             /\ motor_rx' = Append(motor_rx, current_fan_speed) ]_vars
    /\ [][ (Processing /\ Valid(data) /\ pc' # pc) =>
             \/ pc' \in {"set_hum", "sp_temp", "sp_hum", "calc_temp", "calc_hum",
                          "arb_temp", "arb_hum", "arb_auto", "set_fan", "write"}
             \/ pc = "write" /\ pc' = "log"
                   /\ Len(motor_rx') = Len(motor_rx) + 1
             \/ pc = "write" /\ pc' = "except" /\ last_error' = "motor_io" ]_vars
    /\ [][ (pc' = "write" /\ pc # "write") =>
             pc = "set_fan" /\ fan_id' = nsamples ]_vars
    /\ [][ (pc' = "set_temp" /\ pc # "set_temp") =>
             pc = "read" /\ nsamples' = nsamples + 1 ]_vars
    /\ [](pc = "write" => ENABLED WriteMotor)
    /\ [][ (pc' # pc /\ (pc \in {"top", "log"} \/ (pc = "read" /\ pc' # "set_temp"))) =>
             UNCHANGED << motor_rx, current_temp, current_hum, current_fan_speed >> ]_vars

\* three lines were read, the first and the third valid: two commands
C24_Witness ==
    /\ pc = "log" /\ nsamples = 3 /\ fan_id = 3 /\ Valid(data)
    /\ Len(motor_rx) = 2
    /\ motor_rx[2] = current_fan_speed

(***************************************************************************)
(* Paths of the two links                                                  *)
(***************************************************************************)
\* C25 (as claimed): the bound sensor port and the bound motor port differ
\* whenever both are set, and the two open links are on different paths.
C25_LinksOnDifferentPaths ==
    /\ (sensor_port # NoPort /\ motor_port # NoPort) => sensor_port # motor_port
    /\ (sensor_ser # NoPort /\ motor_ser # NoPort) => sensor_ser # motor_ser

(***************************************************************************)
(* A mode that is none of the three                                        *)
(***************************************************************************)
Modes == {"TEMP", "HUM", "AUTO"}

\* C26: when every test of the arbitration of a valid sample has read a
\* control_mode that is none of TEMP, HUM and AUTO, the fan speed stored
\* for the sample is 0 and the command written for it carries fan_speed 0,
\* whatever the two controllers have computed.
C26_UnknownModeStopsFan ==
    /\ [](pc \in {"set_fan", "write"} /\ arb_modes \cap Modes = {}
            => final_speed = 0)
    /\ [](pc = "write" /\ arb_modes \cap Modes = {}
            => current_fan_speed = 0)
    /\ [][ (pc = "write" /\ pc' = "log" /\ arb_modes \cap Modes = {}) =>
             motor_rx' = Append(motor_rx, 0) ]_vars

\* the mode is ECO, both controllers ask for the fan, the command says 0
C26_Witness ==
    /\ pc = "log" /\ control_mode = "ECO" /\ mode_id = 1
    /\ Valid(data) /\ fan_id = nsamples
    /\ speed_temp > 0 /\ speed_hum > 0
    /\ current_fan_speed = 0
    /\ motor_rx # << >> /\ motor_rx[Len(motor_rx)] = 0

====
